---- MODULE Spec2Model ----
(***************************************************************************)
(* Generic push-relabel maximum flow with a FIFO queue of active nodes,    *)
(* as implemented in algorithms/graphs/max-flow/maxflow-4.c.               *)
(*                                                                         *)
(* Conventions.  Node ids are 0-based as in the C code.  The edge array    *)
(* G->edges is a TLA+ sequence, so edge indices are 1-based here (the C    *)
(* index plus one); an edge's rev pointer is the index of its twin.        *)
(* Capacities, flows and excesses are C doubles; the inputs are integers   *)
(* far below 2^53, on which double arithmetic is exact, so they are        *)
(* integers here.  Heights are 32-bit ints.                                *)
(***************************************************************************)
EXTENDS Integers, Sequences, FiniteSets, TLC

\* ---------------------------------------------------------------- bounds
MaxNodes == 4
MaxEdges == 2
MaxCap == 2
MaxIter == 30
MaxQInit == 2
MaxQLen == 4
MaxQVal == 1
MaxNegCap == 1

\* ------------------------------------------------------ program constants
INF == 2147483647
Garbage == -1

MIN(a, b) == IF a < b THEN a ELSE b

VARIABLES
  pc,        \* position of the program: build, loop, push, relabel, requeue,
             \* done, fatal (exit in dequeue), trap (overflow trapped), queue
  G,         \* the graph: nNodes, nodes, edges, maxFlow
  s, t,      \* source and sink read by main
  Q,         \* the circular-buffer queue
  uId,       \* the node dequeued by the current iteration of the loop
  pushed,    \* result of the last call of push in this iteration
  iter,      \* number of dequeues done so far
  fifo,      \* history: the abstract FIFO content (queue specification)
  deqGot,    \* history: value returned by the last dequeue
  deqWant,   \* history: head of the abstract FIFO at the last dequeue
  reloc      \* history: a doubling with front > 0 has happened

vars == <<pc, G, s, t, Q, uId, pushed, iter, fifo, deqGot, deqWant, reloc>>

\* ------------------------------------------------------------------ queue

isEmpty(q) == q.front = q.back

newQueue(n) ==
  [front |-> 0, back |-> 0, size |-> n, array |-> [i \in 0..(n - 1) |-> 0]]

\* mutant of doubleQueueSize: the array grows but nothing is relocated
doubleQueueSizeNoMove(q) ==
  [q EXCEPT !.array = [i \in 0..(2 * q.size - 1) |->
                         IF i < q.size THEN q.array[i] ELSE Garbage],
            !.size = 2 * q.size]

\* realloc keeps cells 0..size-1 and leaves the new cells uninitialized;
\* the loop copies cells 0..back-1 to size..size+back-1
doubleQueueSize(q) ==
  [q EXCEPT !.array = [i \in 0..(2 * q.size - 1) |->
                         IF i < q.size THEN q.array[i]
                         ELSE IF i - q.size < q.back THEN q.array[i - q.size]
                         ELSE Garbage],
            !.back = q.back + q.size,
            !.size = 2 * q.size]

enqueue(q, n) ==
  LET q1 == [q EXCEPT !.array[q.back] = n,
                      !.back = (q.back + 1) % q.size]
  IN  IF q1.back = q1.front THEN doubleQueueSize(q1) ELSE q1

\* dequeue: fatal is the exit(EXIT_FAILURE) branch
dequeue(q) ==
  IF isEmpty(q)
  THEN [fatal |-> TRUE, n |-> Garbage, q |-> q]
  ELSE [fatal |-> FALSE, n |-> q.array[q.front],
        q |-> [q EXCEPT !.front = (q.front + 1) % q.size]]

\* the entries of the queue, oldest first: cells front, front+1, ... back-1
\* taken modulo size
QLen(q) == (q.back - q.front + q.size) % q.size
QContents(q) == [k \in 1..QLen(q) |-> q.array[(q.front + k - 1) % q.size]]

\* ------------------------------------------------------------------ graph

newNode(id) == [id |-> id, adj |-> <<>>, height |-> 0, adjIdx |-> 0, excess |-> 0]

newGraph(n) ==
  [nNodes |-> n, nodes |-> [i \in 0..(n - 1) |-> newNode(i)],
   edges |-> <<>>, maxFlow |-> 0]

\* rev is NULL (0) until buildGraph links the pair
addEdge(g, u, v, cap, reverse) ==
  LET e == [from |-> u, to |-> v, cap |-> cap, flow |-> 0,
            reverse |-> reverse, rev |-> 0]
  IN  [g EXCEPT !.nodes[u].adj = Append(@, Len(g.edges) + 1),
                !.edges = Append(@, e)]

\* one iteration of the loop of buildGraph: the triple (u, v, cap) read
buildEdge(g, u, v, cap) ==
  LET g1 == addEdge(g, u, v, cap, FALSE)
      g2 == addEdge(g1, v, u, 0, TRUE)
      n  == Len(g2.edges)
  IN  [g2 EXCEPT !.edges[n - 1].rev = n, !.edges[n].rev = n - 1]

\* ------------------------------------------------------- push and relabel

residual(e) == e.cap - e.flow

RECURSIVE initLoop(_, _, _, _)
initLoop(g, q, src, i) ==
  IF i > Len(g.nodes[src].adj) THEN [G |-> g, Q |-> q]
  ELSE LET eId == g.nodes[src].adj[i]
           e   == g.edges[eId]
           g1  == [g EXCEPT !.edges[eId].flow = e.cap]
           g2  == [g1 EXCEPT !.edges[e.rev].flow = 0 - e.cap]
           g3  == [g2 EXCEPT !.nodes[e.to].excess = @ + e.cap]
       IN  initLoop(g3, enqueue(q, e.to), src, i + 1)

initPreflow(g, src, q) ==
  initLoop([g EXCEPT !.nodes[src].height = g.nNodes], q, src, 1)

\* mutant of admissible: the heights are not compared
admissibleAnyResidual(g, u, e) == residual(e) > 0

admissible(g, u, e) ==
  residual(e) > 0 /\ g.nodes[u].height = g.nodes[e.to].height + 1

\* mutant of pushDelta: the whole excess is pushed whatever the edge can take
pushDeltaAll(exc, res) == exc

pushDelta(exc, res) == MIN(exc, res)

\* mutant of revFlowAfter: the twin's flow is not updated
revFlowAfterKept(f, delta) == f

revFlowAfter(f, delta) == f - delta

\* mutant of excessAfterLoss: the excess of u is not debited
excessAfterLossKept(x, delta) == x

excessAfterLoss(x, delta) == x - delta

\* mutant of excessAfterGain: the destination's excess is not credited
excessAfterGainLost(x, delta) == x

excessAfterGain(x, delta) == x + delta

\* mutant of wasInactive: push never enqueues the destination
wasInactiveNever(x, delta) == FALSE

\* mutant of wasInactive: the destination is enqueued after every push
wasInactiveAlways(x, delta) == TRUE

\* the test "v->excess == delta" made after v's excess was raised by delta
wasInactive(x, delta) == x = delta

\* mutant of cursorAfterPush: a successful push rewinds the cursor
cursorAfterPushReset(i) == 0

\* "u->adjIdx = i": the cursor a push leaves when it pushes on cell i
cursorAfterPush(i) == i

\* push: scans adj from the saved cursor; cells are 0-based as in C
push(g, u, q) ==
  LET nd  == g.nodes[u]
      adm == {i \in nd.adjIdx..(Len(nd.adj) - 1) :
                admissible(g, u, g.edges[nd.adj[i + 1]])}
  IN  IF adm = {}
      THEN [ok |-> FALSE, G |-> [g EXCEPT !.nodes[u].adjIdx = 0], Q |-> q]
      ELSE LET i     == CHOOSE j \in adm : \A k \in adm : j <= k
               eId   == nd.adj[i + 1]
               e     == g.edges[eId]
               v     == e.to
               delta == pushDelta(nd.excess, residual(e))
               g1    == [g EXCEPT !.nodes[u].adjIdx = cursorAfterPush(i),
                                  !.edges[eId].flow = @ + delta]
               g2    == [g1 EXCEPT !.edges[e.rev].flow = revFlowAfter(@, delta)]
               g3    == [g2 EXCEPT !.nodes[u].excess = excessAfterLoss(@, delta)]
               g4    == [g3 EXCEPT !.nodes[v].excess = excessAfterGain(@, delta)]
           IN  [ok |-> TRUE, G |-> g4,
                Q |-> IF wasInactive(g4.nodes[v].excess, delta)
                      THEN enqueue(q, v) ELSE q]

\* the value of min when the loop of relabel ends
relabelMin(g, u) ==
  LET hs == {g.nodes[g.edges[g.nodes[u].adj[i]].to].height :
               i \in {j \in 1..Len(g.nodes[u].adj) :
                        residual(g.edges[g.nodes[u].adj[j]]) > 0}}
      below == {h \in hs : h < INF}
  IN  IF below = {} THEN INF
      ELSE CHOOSE h \in below : \A k \in below : h <= k

\* min + 1 in a 32-bit int.  min never exceeds INT_MAX, so the only overflow
\* is INT_MAX + 1: signed overflow, undefined in C.  The build either wraps
\* around to INT_MIN = (INT_MAX + 1) - 2^32 (plain gcc, -fwrapv) or traps and
\* aborts (-ftrapv).
intSucc(m) ==
  IF m = INF
  THEN {[trap |-> FALSE, val |-> (0 - INF) - 1], [trap |-> TRUE, val |-> 0]}
  ELSE {[trap |-> FALSE, val |-> m + 1]}

relabel(g, u, h) == [g EXCEPT !.nodes[u].height = h]

\* ------------------------------------------------------------ the program

\* mutant of loopCond: the loop does not test the queue
loopCondAlways(q) == TRUE

loopCond(q) == ~isEmpty(q)

\* mutant of skipped: only the sink is skipped
skippedSinkOnly(u, src, snk) == u = snk

skipped(u, src, snk) == u = snk \/ u = src

\* mutant of stillActive: the node is never put back
stillActiveNever(x) == FALSE

stillActive(x) == x > 0

Nodes == 0..(G.nNodes - 1)

\* main has read n, s and t.  No code path orders or computes with node ids
\* (they are only compared with s and t), so the program is symmetric under
\* renaming of nodes and the source and sink are taken to be nodes 0 and 1.
Init ==
  /\ pc = "build"
  /\ \E n \in 2..MaxNodes : G = newGraph(n) /\ Q = newQueue(n)
  /\ s = 0 /\ t = 1
  /\ uId = 0 /\ pushed = FALSE /\ iter = 0
  /\ fifo = <<>> /\ deqGot = 0 /\ deqWant = 0 /\ reloc = FALSE

hist == <<fifo, deqGot, deqWant, reloc>>

\* the highest node id named so far by the input (the source 0 and the sink
\* 1 are named by main)
maxNamed(g) ==
  LET ids == {1} \cup {g.edges[i].from : i \in 1..Len(g.edges)}
  IN  CHOOSE m \in ids : \A k \in ids : k <= m

\* buildGraph reads one more triple (u, v, cap).  By the symmetry under
\* renaming of nodes, the nodes other than source and sink are named in the
\* order of their first occurrence in the input: every edge list is a
\* renaming of exactly one such list.
BuildEdge ==
  /\ pc = "build"
  /\ Len(G.edges) < 2 * MaxEdges
  /\ \E u \in Nodes, v \in Nodes, c \in 0..MaxCap :
       /\ u <= maxNamed(G) + 1
       /\ v <= (IF u > maxNamed(G) THEN u ELSE maxNamed(G)) + 1
       /\ G' = buildEdge(G, u, v, c)
  /\ UNCHANGED <<pc, s, t, Q, uId, pushed, iter, hist>>

\* end of input: main calls maxFlow, which creates the queue and
\* initializes the preflow
StartMaxFlow ==
  /\ pc = "build"
  /\ LET r == initPreflow(G, s, newQueue(G.nNodes))
     IN  G' = r.G /\ Q' = r.Q
  /\ pc' = "loop"
  /\ UNCHANGED <<s, t, uId, pushed, iter, hist>>

\* the loop test, and the dequeue and the skip of source and sink
LoopHead ==
  /\ pc = "loop"
  /\ isEmpty(Q) \/ iter < MaxIter
  /\ IF ~loopCond(Q)
     THEN /\ G' = [G EXCEPT !.maxFlow = G.nodes[t].excess]
          /\ pc' = "done"
          /\ UNCHANGED <<Q, uId, iter>>
     ELSE LET r == dequeue(Q)
          IN  /\ Q' = r.q
              /\ uId' = r.n
              /\ iter' = iter + 1
              /\ pc' = IF r.fatal THEN "fatal"
                       ELSE IF skipped(r.n, s, t) THEN "loop" ELSE "push"
              /\ G' = G
  /\ UNCHANGED <<s, t, pushed, hist>>

Push ==
  /\ pc = "push"
  /\ LET r == push(G, uId, Q)
     IN  /\ G' = r.G /\ Q' = r.Q /\ pushed' = r.ok
         /\ pc' = IF r.ok THEN "requeue" ELSE "relabel"
  /\ UNCHANGED <<s, t, uId, iter, hist>>

Relabel ==
  /\ pc = "relabel"
  /\ \E o \in intSucc(relabelMin(G, uId)) :
       IF o.trap
       THEN pc' = "trap" /\ G' = G
       ELSE pc' = "requeue" /\ G' = relabel(G, uId, o.val)
  /\ UNCHANGED <<s, t, Q, uId, pushed, iter, hist>>

Requeue ==
  /\ pc = "requeue"
  /\ Q' = IF stillActive(G.nodes[uId].excess) THEN enqueue(Q, uId) ELSE Q
  /\ pc' = "loop"
  /\ UNCHANGED <<G, s, t, uId, pushed, iter, hist>>

Next == BuildEdge \/ StartMaxFlow \/ LoopHead \/ Push \/ Relabel \/ Requeue

Spec == Init /\ [][Next]_vars

\* the program is sequential and runs without suspension: a step that can
\* be taken is taken
FairSpec == Spec /\ WF_vars(Next)

\* buildGraph on unchecked input: scanf accepts any number as capacity and
\* neither buildGraph nor addEdge tests it, so a triple with a negative
\* capacity is stored like any other.  (A node id outside 0..nNodes-1 makes
\* addEdge index G->nodes out of bounds; such triples are not drawn here.)
RawBuildEdge ==
  /\ pc = "build"
  /\ Len(G.edges) < 2 * MaxEdges
  /\ \E u \in Nodes, v \in Nodes, c \in (0 - MaxNegCap)..MaxCap :
       /\ u <= maxNamed(G) + 1
       /\ v <= (IF u > maxNamed(G) THEN u ELSE maxNamed(G)) + 1
       /\ G' = buildEdge(G, u, v, c)
  /\ UNCHANGED <<pc, s, t, Q, uId, pushed, iter, hist>>

RawNext ==
  RawBuildEdge \/ StartMaxFlow \/ LoopHead \/ Push \/ Relabel \/ Requeue

\* the program on input whose capacities were not checked by the caller
RawSpec == Init /\ [][RawNext]_vars

\* ------------------------------------------- the queue taken on its own

QInit ==
  /\ pc = "queue"
  /\ \E n \in 1..MaxQInit : Q = newQueue(n)
  /\ G = newGraph(0) /\ s = 0 /\ t = 0
  /\ uId = 0 /\ pushed = FALSE /\ iter = 0
  /\ fifo = <<>> /\ deqGot = 0 /\ deqWant = 0 /\ reloc = FALSE

QEnqueue ==
  /\ pc = "queue"
  /\ Len(fifo) < MaxQLen
  /\ \E x \in 0..MaxQVal :
       /\ Q' = enqueue(Q, x)
       /\ fifo' = Append(fifo, x)
  /\ reloc' = (reloc \/ (Q'.size > Q.size /\ Q.front > 0))
  /\ UNCHANGED <<pc, G, s, t, uId, pushed, iter, deqGot, deqWant>>

\* dequeue is called only when isEmpty is false
QDequeue ==
  /\ pc = "queue"
  /\ ~isEmpty(Q)
  /\ LET r == dequeue(Q)
     IN  Q' = r.q /\ deqGot' = r.n
  /\ deqWant' = IF fifo = <<>> THEN Garbage ELSE Head(fifo)
  /\ fifo' = IF fifo = <<>> THEN fifo ELSE Tail(fifo)
  /\ UNCHANGED <<pc, G, s, t, uId, pushed, iter, reloc>>

QNext == QEnqueue \/ QDequeue

QSpec == QInit /\ [][QNext]_vars

\* ------------------------------------------------------------ properties

Solving == pc \in {"loop", "push", "relabel", "requeue", "done", "trap"}

Inner == Nodes \ {s, t}

EdgeIds == 1..Len(G.edges)

UserEdges == {i \in EdgeIds : ~G.edges[i].reverse}

RECURSIVE SumOver(_, _, _)
SumOver(S, f(_), acc) ==
  IF S = {} THEN acc
  ELSE LET x == CHOOSE y \in S : TRUE IN SumOver(S \ {x}, f, acc + f(x))

CapOf(i) == G.edges[i].cap
FlowOf(i) == G.edges[i].flow

\* capacity of the cut (S, Nodes \ S): user edges leaving S
CutCap(S) ==
  SumOver({i \in UserEdges : G.edges[i].from \in S /\ G.edges[i].to \notin S},
          CapOf, 0)

\* reference: the minimum over all s-t cuts, by enumeration
MinCut ==
  LET cuts == {CutCap(S \cup {s}) : S \in SUBSET (Nodes \ {s, t})}
  IN  CHOOSE c \in cuts : \A d \in cuts : c <= d

InFlow(v) == SumOver({i \in UserEdges : G.edges[i].to = v}, FlowOf, 0)
OutFlow(v) == SumOver({i \in UserEdges : G.edges[i].from = v}, FlowOf, 0)

\* C1: when maxFlow has returned, G.maxFlow is the capacity of a minimum
\* s-t cut, computed by enumeration of all cuts
C1_MaxFlowIsMinCut == pc = "done" => G.maxFlow = MinCut

\* a run that ended with a positive flow after part of the preflow was
\* pushed back to the source
C1_Witness ==
  pc = "done" /\ G.maxFlow > 0 /\ G.nodes[s].excess > 0 /\ G.maxFlow = MinCut

\* C2: from the state after initPreflow, every execution reaches a state
\* where the queue is empty
C2_Terminates == <>(pc # "build" /\ isEmpty(Q))

\* C3: during solving every user edge has 0 <= flow <= capacity and every
\* reverse edge has -capacity(twin) <= flow <= 0
C3_CapacityConstraint ==
  Solving =>
    \A i \in EdgeIds :
      LET e == G.edges[i] IN
        IF e.reverse
        THEN 0 - G.edges[e.rev].cap <= e.flow /\ e.flow <= 0
        ELSE 0 <= e.flow /\ e.flow <= e.cap

\* a push has just left a user edge partly filled
C3_Witness ==
  /\ pc = "requeue" /\ pushed
  /\ \E i \in UserEdges : 0 < G.edges[i].flow /\ G.edges[i].flow < G.edges[i].cap
  /\ \E i \in UserEdges : G.edges[i].flow = G.edges[i].cap /\ G.edges[i].cap > 0

\* C4: during solving every edge carries the negation of its twin's flow
C4_SkewSymmetry ==
  Solving => \A i \in EdgeIds : G.edges[i].flow = 0 - G.edges[G.edges[i].rev].flow

\* a push along a reverse edge has just handed flow back, in a graph with
\* a self-loop or parallel edges
C4_Witness ==
  /\ pc = "requeue" /\ pushed
  /\ LET nd == G.nodes[uId]
         e  == G.edges[nd.adj[nd.adjIdx + 1]]
     IN  e.reverse /\ G.edges[e.rev].flow < G.edges[e.rev].cap
  /\ \E i, j \in UserEdges :
       /\ i # j
       /\ \/ G.edges[i].from = G.edges[i].to
          \/ (G.edges[i].from = G.edges[j].from /\ G.edges[i].to = G.edges[j].to)

\* C5: during solving the excess of every node but source and sink is the
\* flow entering it minus the flow leaving it over user edges, and no
\* excess is negative
C5_ExcessConservation ==
  Solving =>
    /\ \A v \in Inner : G.nodes[v].excess = InFlow(v) - OutFlow(v)
    /\ \A v \in Nodes : G.nodes[v].excess >= 0

\* a node that has pushed part of its excess on and still holds some
C5_Witness ==
  Solving /\ \E v \in Inner : G.nodes[v].excess > 0 /\ OutFlow(v) > 0

\* C6: when the loop has ended, every node but source and sink has excess
\* 0 and as much flow entering as leaving
C6_FlowAtTermination ==
  pc = "done" =>
    \A v \in Inner : G.nodes[v].excess = 0 /\ InFlow(v) = OutFlow(v)

\* a run that ended with flow through an inner node
C6_Witness == pc = "done" /\ \E v \in Inner : InFlow(v) > 0

\* C7: during solving every edge with positive residual capacity goes down
\* at most one level: height(u) <= height(v) + 1
C7_HeightValid ==
  Solving =>
    \A i \in EdgeIds :
      LET e == G.edges[i] IN
        residual(e) > 0 => G.nodes[e.from].height <= G.nodes[e.to].height + 1

\* C8: during solving the source stays at height nNodes and the sink at 0
C8_TerminalHeightsFixed ==
  Solving => G.nodes[s].height = G.nNodes /\ G.nodes[t].height = 0

\* the source has just been dequeued and skipped, after some relabel
C8_Witness ==
  /\ pc = "loop" /\ iter > 0 /\ uId = s
  /\ \E v \in Inner : G.nodes[v].height > G.nNodes

\* C9: the circular buffer holds the abstract FIFO sequence: isEmpty is
\* true exactly when the sequence is empty, each dequeue returned the
\* oldest entry, and the cells from front to back are the sequence
C9_QueueRefinesFifo ==
  pc = "queue" =>
    /\ isEmpty(Q) <=> fifo = <<>>
    /\ deqGot = deqWant
    /\ QContents(Q) = fifo

\* after a doubling with front > 0 (back wrapped around), dequeue has
\* returned a relocated entry
C9_Witness ==
  /\ pc = "queue" /\ reloc
  /\ 2 * Q.front > Q.size
  /\ deqGot = 1 /\ deqWant = 1
  /\ fifo # <<>>

\* C10: the exit in dequeue is never reached by the engine
C10_NoFatalDequeue == pc # "fatal"

\* the loop has dequeued nodes and has ended on the emptiness test
C10_Witness == pc = "done" /\ iter > 1 /\ isEmpty(Q)

\* the nodes reached from the nodes of S over the user edges of E
RECURSIVE ReachOver(_, _)
ReachOver(S, E) ==
  LET S1 == S \cup {G.edges[i].to : i \in {j \in E : G.edges[j].from \in S}}
  IN  IF S1 = S THEN S ELSE ReachOver(S1, E)

SinkReachable == t \in ReachOver({s}, UserEdges)

FlowEdges == {i \in UserEdges : G.edges[i].flow > 0}

\* C11 as stated: with the sink unreachable over user edges, maxFlow returns
\* with value 0 and flow 0 on every edge
C11_AllFlowsZero ==
  (pc = "done" /\ ~SinkReachable) =>
    G.maxFlow = 0 /\ \A i \in EdgeIds : G.edges[i].flow = 0

\* C11 amended: with the sink unreachable over user edges, maxFlow returns
\* with value 0, no flow on the edges at the sink, and a circulation on the
\* rest: a user edge carries flow only on a directed cycle of user edges
\* that carry flow
C11_ZeroValueCirculation ==
  (pc = "done" /\ ~SinkReachable) =>
    /\ G.maxFlow = 0
    /\ \A i \in EdgeIds :
         (G.edges[i].from = t \/ G.edges[i].to = t) => G.edges[i].flow = 0
    /\ \A i \in UserEdges : G.edges[i].flow >= 0
    /\ \A i \in FlowEdges :
         G.edges[i].from \in ReachOver({G.edges[i].to}, FlowEdges)

\* a run with the sink unreachable that ended with flow left on a cycle
C11_Witness ==
  pc = "done" /\ ~SinkReachable /\ FlowEdges # {} /\ G.maxFlow = 0

\* C12: malformed triples are rejected at construction, so during solving
\* no edge has a negative capacity or an endpoint outside 0..nNodes-1
C12_NoMalformedEdge ==
  Solving =>
    \A i \in EdgeIds :
      G.edges[i].cap >= 0 /\ G.edges[i].from \in Nodes /\ G.edges[i].to \in Nodes

Running == pc \in {"loop", "push", "relabel", "requeue"}

NoDuplicates(q) ==
  \A i, j \in 1..QLen(q) : i # j => QContents(q)[i] # QContents(q)[j]

\* C13: during solving no node id occurs twice among the entries of the
\* queue (so after initPreflow each neighbour of the source occurs once)
C13_QueueHasNoDuplicates == Running => NoDuplicates(Q)

\* the state in which initPreflow has returned and the loop has not started
AfterInit == pc = "loop" /\ iter = 0

SourceEdges == {i \in UserEdges : G.edges[i].from = s}

\* C14: after initPreflow every user edge leaving the source (a self-loop
\* included) carries its capacity and its twin the negation, every other
\* node holds the sum of the capacities of the user edges from the source
\* to it, and the edges not incident to the source carry 0
C14_InitPreflowPost ==
  AfterInit =>
    /\ \A i \in SourceEdges :
         /\ G.edges[i].flow = G.edges[i].cap
         /\ G.edges[G.edges[i].rev].flow = 0 - G.edges[i].cap
    /\ \A v \in Nodes \ {s} :
         G.nodes[v].excess =
           SumOver({i \in SourceEdges : G.edges[i].to = v}, CapOf, 0)
    /\ \A i \in EdgeIds :
         (G.edges[i].from # s /\ G.edges[i].to # s) => G.edges[i].flow = 0

\* the destination of the edge at the cursor of the node being processed:
\* after a successful push, the destination of the edge pushed on
CursorTo == G.edges[G.nodes[uId].adj[G.nodes[uId].adjIdx + 1]].to

PushStep == pc = "push" /\ pc' = "requeue"

\* C15 as stated: a push enqueues only a destination that is neither source
\* nor sink and whose excess went from zero to positive
C15_PushEnqueuesOnlyNewlyActiveInner ==
  [][(PushStep /\ Q' # Q) =>
       /\ G.nodes[CursorTo'].excess = 0
       /\ G'.nodes[CursorTo'].excess > 0
       /\ CursorTo' \notin {s, t}]_vars

\* C15 amended: a push enqueues the destination v of the edge pushed on, at
\* the back of the queue, exactly when v's excess was zero before the push,
\* be v the source or the sink or not
C15_PushEnqueuesIffWasZero ==
  [][PushStep =>
       IF G.nodes[CursorTo'].excess = 0
       THEN QContents(Q') = Append(QContents(Q), CursorTo')
       ELSE Q' = Q]_vars

\* a push has just put the sink at the back of the queue, in a graph where
\* initPreflow does not enqueue the sink
C15_Witness ==
  /\ pc = "requeue" /\ pushed
  /\ CursorTo = t
  /\ QLen(Q) > 0 /\ QContents(Q)[QLen(Q)] = t
  /\ \A i \in EdgeIds : ~(G.edges[i].from = s /\ G.edges[i].to = t)

\* the edge at the cursor of the node being processed
CursorEdge == G.nodes[uId].adj[G.nodes[uId].adjIdx + 1]

\* C16: a successful push acts on one admissible edge e = (u, v) and moves
\* delta = min(excess(u), cap(e) - flow(e)) units: flow(e) rises by delta,
\* flow(e.rev) falls by delta, excess(u) falls by delta, excess(v) rises by
\* delta; heights, capacities, the other flows and the other excesses are
\* unchanged. A failed push changes nothing but u's cursor, which becomes 0.
C16_PushFrame ==
  [][pc = "push" =>
       IF pc' = "requeue"
       THEN LET eId == CursorEdge'
                e == G.edges[eId]
                v == e.to
                delta == MIN(G.nodes[uId].excess, e.cap - e.flow)
            IN /\ e.from = uId
               /\ e.cap - e.flow > 0
               /\ G.nodes[uId].height = G.nodes[v].height + 1
               /\ G'.edges[eId].flow = e.flow + delta
               /\ G'.edges[e.rev].flow = G.edges[e.rev].flow - delta
               /\ G'.nodes[uId].excess = G.nodes[uId].excess - delta
               /\ G'.nodes[v].excess = G.nodes[v].excess + delta
               /\ \A i \in EdgeIds :
                    /\ G'.edges[i].cap = G.edges[i].cap
                    /\ i \notin {eId, e.rev} => G'.edges[i].flow = G.edges[i].flow
               /\ \A n \in Nodes :
                    /\ G'.nodes[n].height = G.nodes[n].height
                    /\ n \notin {uId, v} => G'.nodes[n].excess = G.nodes[n].excess
       ELSE /\ G' = [G EXCEPT !.nodes[uId].adjIdx = 0]
            /\ Q' = Q]_vars

\* a push has just moved a positive amount to an inner node, leaving the
\* pushing node with part of its excess
C16_Witness ==
  /\ pc = "requeue" /\ pushed
  /\ G.edges[CursorEdge].flow > 0
  /\ G.edges[CursorEdge].to \in Inner
  /\ G.nodes[uId].excess > 0

\* C17: during solving every node's height is non-negative, also after a
\* relabel of a node without residual outgoing edge
C17_HeightsNonNegative ==
  Solving => \A n \in Nodes : G.nodes[n].height >= 0

\* the edge in cell i (0-based) of node n's adjacency list
AdjEdge(n, i) == G.edges[G.nodes[n].adj[i + 1]]

\* the cursor discipline: a cursor changes only in a push on its node and
\* moves back (to 0) only when that push fails; a failed push is followed at once by relabel of
\* the same node; a successful push scans forward from the saved cursor and
\* leaves the cursor on the cell of the edge it pushed on
CursorStep ==
  /\ \A n \in Nodes :
      /\ G'.nodes[n].adjIdx # G.nodes[n].adjIdx => pc = "push" /\ n = uId
      /\ G'.nodes[n].adjIdx < G.nodes[n].adjIdx =>
           pc' = "relabel" /\ G'.nodes[n].adjIdx = 0
  /\ (pc = "push" /\ pc' = "relabel") => G'.nodes[uId].adjIdx = 0
  /\ pc = "relabel" =>
       /\ pc' \in {"requeue", "trap"} /\ uId' = uId
       /\ \A n \in Nodes \ {uId} : G'.nodes[n].height = G.nodes[n].height
  /\ PushStep =>
       /\ G'.nodes[uId].adjIdx >= G.nodes[uId].adjIdx
       /\ admissible(G, uId, AdjEdge(uId, G'.nodes[uId].adjIdx))
       /\ G'.edges[CursorEdge'].flow - G.edges[CursorEdge'].flow
            = MIN(G.nodes[uId].excess, residual(G.edges[CursorEdge']))
       /\ \A j \in G.nodes[uId].adjIdx..(G'.nodes[uId].adjIdx - 1) :
            ~admissible(G, uId, AdjEdge(uId, j))

\* C18: every step obeys the cursor discipline of CursorStep: cursors move
\* back only by a failed push, which relabel of the same node follows at once,
\* and a successful push leaves the cursor on the edge it pushed on
C18_CursorDiscipline == [][CursorStep]_vars

\* a push has succeeded on a cell beyond the first one, so the cursor stays
\* at a non-zero index, on a node that was relabelled before
C18_Witness ==
  /\ pc = "requeue" /\ pushed
  /\ G.nodes[uId].adjIdx > 0
  /\ G.nodes[uId].height > 1

\* C19: whenever push is about to be attempted on a dequeued inner node, and
\* whenever relabel is about to be applied to it, the node has positive excess
C19_ProcessedNodeIsActive ==
  pc \in {"push", "relabel"} => G.nodes[uId].excess > 0

\* no edge of node n's adjacency list is admissible
NoAdmissibleEdge(n) ==
  \A i \in 0..(Len(G.nodes[n].adj) - 1) : ~admissible(G, n, AdjEdge(n, i))

\* C20: when relabel is about to run on u, no edge of u's whole adjacency
\* list is admissible, and the relabel leaves u strictly higher than it was
C20_RelabelRaisesHeight ==
  [][pc = "relabel" =>
       /\ NoAdmissibleEdge(uId)
       /\ pc' = "requeue" => G'.nodes[uId].height > G.nodes[uId].height]_vars

\* the identifiers that have an entry in the queue
InQueue == {QContents(Q)[i] : i \in 1..QLen(Q)}

\* C21: at the top of every iteration of the discharge loop every node other
\* than source and sink with positive excess has an entry in the queue
C21_ActiveNodesQueued ==
  pc = "loop" => \A n \in Inner : G.nodes[n].excess > 0 => n \in InQueue

\* at the top of an iteration after the first, two inner nodes are active,
\* one of them relabelled before, and both are in the queue
C21_Witness ==
  /\ pc = "loop" /\ iter > 1
  /\ \E m, n \in Inner :
       /\ m # n
       /\ G.nodes[m].excess > 0 /\ G.nodes[n].excess > 0
       /\ G.nodes[m].height > 0
       /\ {m, n} \subseteq InQueue

\* the destinations of the entries of the source's adjacency list (user
\* edges out of the source and twins of user edges into it) are pairwise
\* distinct and none of them is the source
SourceAdjDistinct ==
  LET adj == G.nodes[s].adj
  IN  /\ \A i \in 1..Len(adj) : G.edges[adj[i]].to # s
      /\ \A i, j \in 1..Len(adj) :
           i # j => G.edges[adj[i]].to # G.edges[adj[j]].to

\* C22: when the source's adjacency entries have pairwise distinct
\* destinations other than the source, no identifier occurs twice in the
\* queue after initPreflow and in every later state of the discharge loop
C22_NoDuplicatesIfSourceAdjDistinct ==
  (Running /\ SourceAdjDistinct) => NoDuplicates(Q)

\* a push has just enqueued its destination behind another entry, in a graph
\* whose source has two adjacency entries with distinct destinations
C22_Witness ==
  /\ pc = "requeue" /\ pushed
  /\ SourceAdjDistinct /\ Len(G.nodes[s].adj) >= 2
  /\ QLen(Q) >= 2 /\ QContents(Q)[QLen(Q)] = CursorTo

====
